---- MODULE Spec2Model ----
(***************************************************************************)
(* Model of RenameController (rename workflow of the editor): run(), the   *)
(* accept/cancel commands, _prepareRename and the promise callbacks that   *)
(* run() chains on the input field, the rename provider and the bulk edit. *)
(* Each action is one turn of the single JavaScript thread: a call of      *)
(* run(), a command, or the settling of one pending promise together with  *)
(* every callback that settling runs synchronously.                        *)
(***************************************************************************)
EXTENDS Integers, Sequences, FiniteSets, TLC

\* ------------------------------------------------------------------ bounds
MaxRuns == 2        \* run() invocations followed in one behaviour
MaxColumn == 4      \* columns 1..MaxColumn of a line
MaxLine == 2        \* lines 1..MaxLine of the document

\* ------------------------------------------------------------- constants
ProgressDelay == 250

Runs == 1..MaxRuns

\* --------------------------------------------------------- JavaScript values
Str(s) == [type |-> "string", val |-> s]
Obj(n) == [type |-> "object", val |-> n]
Undefined == [type |-> "undefined", val |-> ""]

\* typeof err === 'string'
IsString(v) == v.type = "string"

\* JavaScript truthiness of a value used as a condition
Truthy(v) == \/ v.type = "object"
             \/ v.type = "string" /\ v.val # ""

\* errors.canceled(): an Error object named 'Canceled'
Canceled == Obj("Canceled")
\* any other Error object
Failure == Obj("Error")

\* isPromiseCanceledError(err)
isPromiseCanceledError(err) == err.type = "object" /\ err.val = "Canceled"

\* ------------------------------------------------------ positions, selections
Pos(l, c) == [lineNumber |-> l, column |-> c]
NoPos == Pos(0, 0)
Positions == {Pos(l, c) : l \in 1..MaxLine, c \in 1..MaxColumn}

PosBefore(p, q) == \/ p.lineNumber < q.lineNumber
                   \/ p.lineNumber = q.lineNumber /\ p.column <= q.column

\* A Selection: the anchor (selectionStart*) and the active end (position*),
\* the cursor.  startLineNumber .. endColumn are the same two points ordered.
Sel(a, p) == [selectionStart |-> a, position |-> p]
NoSelection == Sel(NoPos, NoPos)
AllSelections == {Sel(a, p) : a \in Positions, p \in Positions}

getStartPosition(s) == IF PosBefore(s.selectionStart, s.position)
                       THEN s.selectionStart ELSE s.position
getEndPosition(s) == IF PosBefore(s.selectionStart, s.position)
                     THEN s.position ELSE s.selectionStart
startLineNumber(s) == getStartPosition(s).lineNumber
startColumn(s) == getStartPosition(s).column
endLineNumber(s) == getEndPosition(s).lineNumber
endColumn(s) == getEndPosition(s).column
isEmpty(s) == s.selectionStart = s.position

\* editor.getPosition(): the cursor, i.e. the active end of the selection
getPosition(s) == s.position

\* ------------------------------------------------------------------ words
\* model.getWordAtPosition(position): a word whose column range holds the
\* position (its end included), or nothing.  word.word is the text.
Text(n) == [i \in 1..n |-> "w"]
Word(sc, ec) == [word |-> Text(ec - sc), startColumn |-> sc, endColumn |-> ec]
NoWord == [word |-> <<>>, startColumn |-> 0, endColumn |-> 0]
WordsAt(p) == {Word(sc, ec) : sc \in 1..p.column, ec \in p.column..MaxColumn} \ {Word(p.column, p.column)}
getWordAtPosition(p) == WordsAt(p) \cup {NoWord}

Min(a, b) == IF a <= b THEN a ELSE b
Max(a, b) == IF a >= b THEN a ELSE b

\* ------------------------------------------------------- inputs of the model
\* what the user types into the input field
Names == {"bar"}

\* where the cursor is put while the workflow runs: an empty selection, and a
\* selection made forwards on one line (its cursor is at its end)
Cursors == { Sel(Pos(1, 2), Pos(1, 2)), Sel(Pos(1, 1), Pos(1, 3)) }

\* what the rename provider may answer: IRenameResult {rejectReason?, edits}
Result(reason, edits) == [rejectReason |-> reason, edits |-> edits]
NoResult == Result(Undefined, <<>>)
RenameResults == { Result(Undefined, <<"e1", "e2">>), Result(Str("X"), <<>>),
                   Result(Str(""), <<"e1">>) }
\* what a promise of the provider or of the bulk edit may reject with
Errors == { Failure, Str("S") }
\* what bulkEdit.finish() may resolve with: a selection or nothing
FinishSelections == { NoSelection, Sel(Pos(2, 2), Pos(2, 2)) }

\* ------------------------------------------------------------------- state
VARIABLES
    renameInputVisible,  \* the context key 'renameInputVisible'
    selection,           \* the editor's selection
    focus,               \* "text": the editor, "input": the input field, "none"
    inputField,          \* the RenameInputField and its pending getInput()
    runs,                \* the calls of run(), each with what it has done so far
    bulkEdits            \* the BulkEdit objects created so far

vars == <<renameInputVisible, selection, focus, inputField, runs, bulkEdits>>

Range(l, sc, ec) == [startLineNumber |-> l, startColumn |-> sc, endLineNumber |-> l, endColumn |-> ec]
\* the input field: hidden, or shown with a pending getInput(); missed tells
\* that acceptInput() or cancelInput() was called with no getInput() pending
Hidden == [pending |-> FALSE, run |-> 0, where |-> Range(0, 0, 0), value |-> <<>>,
           selectionStart |-> 0, selectionEnd |-> 0, missed |-> FALSE]

\* the promise run() returned: pending, or how it settled; "undefined" is the
\* bare return of line 93
Outcome(k, e) == [kind |-> k, err |-> e]

NewRun == [ pc |-> "none",           \* none, returned, input, renaming, finishing, done
            startPosition |-> NoPos, \* where run() looked the word up
            position |-> NoPos,      \* where the cursor was when run() was called
            inputError |-> Undefined,\* what getInput() rejected with
            newName |-> "",          \* what getInput() resolved with
            renameCalls |-> <<>>,    \* the calls of rename(model, position, newName)
            edit |-> 0,              \* the BulkEdit of _prepareRename, an index of bulkEdits
            result |-> NoResult,     \* what rename() resolved with
            messages |-> <<>>,       \* the calls of _messageService.show
            resets |-> 0,            \* the calls of _renameInputVisible.reset()
            focused |-> 0,           \* the calls of editor.focus()
            selectionsSet |-> <<>>,  \* the calls of editor.setSelection
            showWhile |-> <<>>,      \* the calls of _progressService.showWhile
            failure |-> Undefined,   \* what _prepareRename() rejected with
            calls |-> <<>>,          \* the calls the callbacks of run() made, in order
            outcome |-> Outcome("none", Undefined) ]

\* a BulkEdit: the run() that created it, the edits added, the calls of
\* finish(), and how finish() ended: open, finishing, committed (with the
\* selection it resolved with) or failed (with the error it rejected with)
NewBulkEdit(r) == [run |-> r, edits |-> <<>>, finishCalls |-> 0, state |-> "open",
                   selection |-> NoSelection, error |-> Undefined]

InitWith(cursors) ==
    /\ renameInputVisible = FALSE
    /\ selection \in cursors
    /\ focus = "text"
    /\ inputField = Hidden
    /\ runs = [r \in Runs |-> NewRun]
    /\ bulkEdits = <<>>

Init == InitWith(Cursors)

\* ------------------------------------------------------------------ run()
\* a selectionStartOf that forgets to subtract the start of the word
selectionStartOfAbsolute(sel, word) ==
    IF ~isEmpty(sel) /\ startLineNumber(sel) = endLineNumber(sel)
    THEN Max(0, startColumn(sel))
    ELSE 0

\* lines 96-111: the part of the word that the input field pre-selects
selectionStartOf(sel, word) ==
    IF ~isEmpty(sel) /\ startLineNumber(sel) = endLineNumber(sel)
    THEN Max(0, startColumn(sel) - word.startColumn)
    ELSE 0

\* a selectionEndOf that forgets Math.min: the end of the selection, unclamped
selectionEndOfUnclamped(sel, word) ==
    IF ~isEmpty(sel) /\ startLineNumber(sel) = endLineNumber(sel)
    THEN endColumn(sel) - word.startColumn
    ELSE Len(word.word)

selectionEndOf(sel, word) ==
    IF ~isEmpty(sel) /\ startLineNumber(sel) = endLineNumber(sel)
    THEN Min(word.endColumn, endColumn(sel)) - word.startColumn
    ELSE Len(word.word)

\* lines 101-106
wordRangeOf(sel, word) == Range(startLineNumber(sel), word.startColumn, word.endColumn)

\* RenameInputField.getInput(where, value, selectionStart, selectionEnd): shows
\* the field, gives it the focus, and returns the promise that acceptInput()
\* resolves and cancelInput() rejects
getInput(r, where, value, selStart, selEnd) ==
    /\ inputField' = [pending |-> TRUE, run |-> r, where |-> where, value |-> value,
                      selectionStart |-> selStart, selectionEnd |-> selEnd,
                      missed |-> FALSE]
    /\ focus' = "input"

\* a RunReturns that sets the context key (line 113) before it looks for the word
RunReturnsVisible(r) ==
    /\ renameInputVisible' = TRUE
    /\ runs' = [runs EXCEPT ![r].pc = "returned", ![r].outcome = Outcome("undefined", Undefined)]
    /\ UNCHANGED <<selection, focus, inputField, bulkEdits>>

\* lines 92-94: no word, run() returns undefined
RunReturns(r) ==
    /\ runs' = [runs EXCEPT ![r].pc = "returned", ![r].outcome = Outcome("undefined", Undefined)]
    /\ UNCHANGED <<renameInputVisible, selection, focus, inputField, bulkEdits>>

\* a RunShows that creates the BulkEdit (line 160) before the input is asked for
RunShowsWithEdit(r, word) ==
    /\ renameInputVisible' = TRUE
    /\ getInput(r, wordRangeOf(selection, word), word.word,
                selectionStartOf(selection, word), selectionEndOf(selection, word))
    /\ bulkEdits' = Append(bulkEdits, NewBulkEdit(r))
    /\ runs' = [runs EXCEPT ![r].pc = "input",
                            ![r].startPosition = getStartPosition(selection),
                            ![r].position = getPosition(selection),
                            ![r].outcome = Outcome("pending", Undefined)]
    /\ UNCHANGED selection

\* lines 96-114: the context key is set and the input field is shown
RunShows(r, word) ==
    /\ renameInputVisible' = TRUE
    /\ getInput(r, wordRangeOf(selection, word), word.word,
                selectionStartOf(selection, word), selectionEndOf(selection, word))
    /\ runs' = [runs EXCEPT ![r].pc = "input",
                            ![r].startPosition = getStartPosition(selection),
                            ![r].position = getPosition(selection),
                            ![r].outcome = Outcome("pending", Undefined)]
    /\ UNCHANGED <<selection, bulkEdits>>

\* run() is called (the action, a menu entry, F2); calls are numbered in order.
\* It is not called while the input field is open: getInput() has one pending
\* call at a time.
Run(r) ==
    /\ runs[r].pc = "none"
    /\ \A q \in Runs : q < r => runs[q].pc # "none"
    /\ ~inputField.pending
    /\ \E word \in getWordAtPosition(getStartPosition(selection)) :
          IF word = NoWord THEN RunReturns(r) ELSE RunShows(r, word)

\* ------------------------------------------------- the callbacks of run()
Message(sev, text) == [severity |-> sev, message |-> text]

\* lines 115-116 and 139-140: reset the context key, refocus the editor
Restored(run) == [run EXCEPT !.resets = @ + 1, !.focused = @ + 1,
                             !.calls = @ \o <<"reset", "focus">>]

\* a PrepareRename that keeps the first BulkEdit and uses it again
PrepareRenameReuses(run, newName, position, handle) ==
    [run EXCEPT !.edit = 1,
                !.renameCalls = Append(@, [model |-> "model", position |-> position,
                                           newName |-> newName]),
                !.calls = @ \o <<"createBulkEdit", "rename">>]

\* lines 156-162: _prepareRename creates the BulkEdit and calls rename() with
\* the editor's model, the editor's position now, and the new name
PrepareRename(run, newName, position, handle) ==
    [run EXCEPT !.edit = handle,
                !.renameCalls = Append(@, [model |-> "model", position |-> position,
                                           newName |-> newName]),
                !.calls = @ \o <<"createBulkEdit", "rename">>]

\* lines 114-136, the success callback of getInput()
Accepted(run, newName, position, handle) ==
    [PrepareRename(Restored(run), newName, position, handle)
        EXCEPT !.pc = "renaming", !.newName = newName,
               !.showWhile = Append(@, ProgressDelay),
               !.calls = Append(@, "showWhile")]

\* an OnAccepted that forgets line 115: the context key is left as it is
OnAcceptedNoReset(r, newName) ==
    /\ focus' = "text"
    /\ inputField' = Hidden
    /\ bulkEdits' = Append(bulkEdits, NewBulkEdit(r))
    /\ runs' = [runs EXCEPT ![r] = Accepted(@, newName, getPosition(selection), Len(bulkEdits) + 1)]
    /\ UNCHANGED <<renameInputVisible, selection>>

OnAccepted(r, newName) ==
    /\ renameInputVisible' = FALSE
    /\ focus' = "text"
    /\ inputField' = Hidden
    /\ bulkEdits' = Append(bulkEdits, NewBulkEdit(r))
    /\ runs' = [runs EXCEPT ![r] = Accepted(@, newName, getPosition(selection), Len(bulkEdits) + 1)]
    /\ UNCHANGED selection

\* a Rejected that forgets isPromiseCanceledError: every rejection is passed on
RejectedPassesAll(run, err) ==
    [Restored(run) EXCEPT !.pc = "done", !.inputError = err,
                          !.outcome = Outcome("rejected", err)]

\* a Rejected that swallows every rejection, not the cancellation only
RejectedSwallowsAll(run, err) ==
    [Restored(run) EXCEPT !.pc = "done", !.inputError = err,
                          !.outcome = Outcome("resolved", Undefined)]

\* lines 138-145, the error callback of getInput()
Rejected(run, err) ==
    [Restored(run) EXCEPT !.pc = "done",
                          !.inputError = err,
                          !.outcome = IF ~isPromiseCanceledError(err)
                                      THEN Outcome("rejected", err)
                                      ELSE Outcome("resolved", Undefined)]

\* an OnRejected that forgets line 139: the context key is left as it is
OnRejectedNoReset(r, err) ==
    /\ focus' = "text"
    /\ inputField' = Hidden
    /\ runs' = [runs EXCEPT ![r] = Rejected(@, err)]
    /\ UNCHANGED <<renameInputVisible, selection, bulkEdits>>

OnRejected(r, err) ==
    /\ renameInputVisible' = FALSE
    /\ focus' = "text"
    /\ inputField' = Hidden
    /\ runs' = [runs EXCEPT ![r] = Rejected(@, err)]
    /\ UNCHANGED <<selection, bulkEdits>>

\* a RenameFailed that forgets the typeof test: every failure is an error
RenameFailedAlwaysError(run, err) ==
    [run EXCEPT !.pc = "done", !.failure = err, !.calls = Append(@, "show"),
                !.messages = Append(@, Message("Error", "rename.failed")),
                !.outcome = Outcome("rejected", err)]

\* a RenameFailed that forgets line 131: the error is shown and not passed on
RenameFailedSwallows(run, err) ==
    IF IsString(err)
    THEN [run EXCEPT !.pc = "done", !.failure = err, !.calls = Append(@, "show"),
                     !.messages = Append(@, Message("Info", err.val)),
                     !.outcome = Outcome("resolved", Undefined)]
    ELSE [run EXCEPT !.pc = "done", !.failure = err, !.calls = Append(@, "show"),
                     !.messages = Append(@, Message("Error", "rename.failed")),
                     !.outcome = Outcome("resolved", Undefined)]

\* lines 126-133, the error callback of _prepareRename()
RenameFailed(run, err) ==
    IF IsString(err)
    THEN [run EXCEPT !.pc = "done", !.failure = err, !.calls = Append(@, "show"),
                     !.messages = Append(@, Message("Info", err.val)),
                     !.outcome = Outcome("resolved", Undefined)]
    ELSE [run EXCEPT !.pc = "done", !.failure = err, !.calls = Append(@, "show"),
                     !.messages = Append(@, Message("Error", "rename.failed")),
                     !.outcome = Outcome("rejected", err)]

\* an IsRejection that tests the type of the reason, not its truth
IsRejectionAnyString(result) == IsString(result.rejectReason)

\* lines 163-165: is the result of rename() turned into a rejection
IsRejection(result) == Truthy(result.rejectReason)

\* BulkEdit.add(edits) and BulkEdit.finish()
Add(bulkEdit, edits) == [bulkEdit EXCEPT !.edits = @ \o edits]
Finish(bulkEdit) == [bulkEdit EXCEPT !.finishCalls = @ + 1, !.state = "finishing"]

\* an OnRenameResolved that forgets line 166: finish() is called on a BulkEdit
\* that was given no edit
OnRenameResolvedNoAdd(r, result) ==
    IF IsRejection(result)
    THEN /\ runs' = [runs EXCEPT ![r] = RenameFailed([@ EXCEPT !.result = result], result.rejectReason)]
         /\ UNCHANGED <<renameInputVisible, selection, focus, inputField, bulkEdits>>
    ELSE /\ bulkEdits' = [bulkEdits EXCEPT ![runs[r].edit] = Finish(@)]
         /\ runs' = [runs EXCEPT ![r].pc = "finishing", ![r].result = result,
                                 ![r].calls = @ \o <<"add", "finish">>]
         /\ UNCHANGED <<renameInputVisible, selection, focus, inputField>>

\* lines 118-120 and 162-168: rename() resolved
OnRenameResolved(r, result) ==
    IF IsRejection(result)
    THEN /\ runs' = [runs EXCEPT ![r] = RenameFailed([@ EXCEPT !.result = result], result.rejectReason)]
         /\ UNCHANGED <<renameInputVisible, selection, focus, inputField, bulkEdits>>
    ELSE /\ bulkEdits' = [bulkEdits EXCEPT ![runs[r].edit] = Finish(Add(@, result.edits))]
         /\ runs' = [runs EXCEPT ![r].pc = "finishing", ![r].result = result,
                                 ![r].calls = @ \o <<"add", "finish">>]
         /\ UNCHANGED <<renameInputVisible, selection, focus, inputField>>

\* lines 126-133: rename() rejected
OnRenameRejected(r, err) ==
    /\ runs' = [runs EXCEPT ![r] = RenameFailed(@, err)]
    /\ UNCHANGED <<renameInputVisible, selection, focus, inputField, bulkEdits>>

\* a Finished that forgets the test of line 121: setSelection is always called
FinishedAlwaysSets(run, sel) ==
    [run EXCEPT !.pc = "done",
                !.selectionsSet = Append(@, sel),
                !.calls = Append(@, "setSelection"),
                !.outcome = Outcome("resolved", Undefined)]

\* lines 120-124: finish() resolved, with a selection or with nothing
Finished(run, sel) ==
    [run EXCEPT !.pc = "done",
                !.selectionsSet = IF sel # NoSelection THEN Append(@, sel) ELSE @,
                !.calls = IF sel # NoSelection THEN Append(@, "setSelection") ELSE @,
                !.outcome = Outcome("resolved", Undefined)]

\* an OnFinishResolved that resets the context key once the rename is done
OnFinishResolvedResets(r, sel) ==
    /\ bulkEdits' = [bulkEdits EXCEPT ![runs[r].edit].state = "committed",
                                      ![runs[r].edit].selection = sel]
    /\ selection' = IF sel # NoSelection THEN sel ELSE selection
    /\ runs' = [runs EXCEPT ![r] = Finished(@, sel)]
    /\ renameInputVisible' = FALSE
    /\ UNCHANGED <<focus, inputField>>

OnFinishResolved(r, sel) ==
    /\ bulkEdits' = [bulkEdits EXCEPT ![runs[r].edit].state = "committed",
                                      ![runs[r].edit].selection = sel]
    /\ selection' = IF sel # NoSelection THEN sel ELSE selection
    /\ runs' = [runs EXCEPT ![r] = Finished(@, sel)]
    /\ UNCHANGED <<renameInputVisible, focus, inputField>>

\* lines 118-125: finish() rejected; the success callback of line 118 has no
\* error callback behind it, so renameOperation rejects with the same error
\* a FinishFailed that drops the rejection: the promise of run() stays pending
FinishFailedPending(run, err) == [run EXCEPT !.pc = "failed"]

FinishFailed(run, err) == [run EXCEPT !.pc = "done", !.outcome = Outcome("rejected", err)]

OnFinishRejected(r, err) ==
    /\ bulkEdits' = [bulkEdits EXCEPT ![runs[r].edit].state = "failed",
                                      ![runs[r].edit].error = err]
    /\ runs' = [runs EXCEPT ![r] = FinishFailed(@, err)]
    /\ UNCHANGED <<renameInputVisible, selection, focus, inputField>>

\* ------------------------------------------------------------- the actions
\* lines 217-222: the commands are bound while the editor (the input field is
\* one of its widgets) has the focus and the context key is true
\* a RenameCommand registered without its kbExpr: the commands are always bound
RenameCommandAlways == TRUE

RenameCommandEnabled == focus # "none" /\ renameInputVisible

\* lines 148-150 and 226-232: acceptRenameInput; the field resolves the pending
\* getInput() with its text
AcceptRenameInput ==
    /\ RenameCommandEnabled
    /\ IF inputField.pending
       THEN \E newName \in Names : OnAccepted(inputField.run, newName)
       ELSE /\ inputField' = [inputField EXCEPT !.missed = TRUE]
            /\ UNCHANGED <<renameInputVisible, selection, focus, runs, bulkEdits>>

\* lines 152-154 and 234-241: cancelRenameInput; the field rejects the pending
\* getInput() with the cancellation error
CancelRenameInput ==
    /\ RenameCommandEnabled
    /\ IF inputField.pending
       THEN OnRejected(inputField.run, Canceled)
       ELSE /\ inputField' = [inputField EXCEPT !.missed = TRUE]
            /\ UNCHANGED <<renameInputVisible, selection, focus, runs, bulkEdits>>

\* the input field gives up by itself: it lost the focus (a cancellation) or
\* it failed
InputFieldRejects(err) ==
    /\ inputField.pending
    /\ OnRejected(inputField.run, err)

RenameResolves(r, result) ==
    /\ runs[r].pc = "renaming"
    /\ OnRenameResolved(r, result)

RenameRejects(r, err) ==
    /\ runs[r].pc = "renaming"
    /\ OnRenameRejected(r, err)

FinishResolves(r, sel) ==
    /\ runs[r].pc = "finishing"
    /\ OnFinishResolved(r, sel)

FinishRejects(r, err) ==
    /\ runs[r].pc = "finishing"
    /\ OnFinishRejected(r, err)

\* the cursor is moved by something else than the rename
SetSelection(s) ==
    /\ s # selection
    /\ selection' = s
    /\ UNCHANGED <<renameInputVisible, focus, inputField, runs, bulkEdits>>

\* the editor loses the focus, or gets it back, while no input field is open
Blur ==
    /\ focus = "text"
    /\ focus' = "none"
    /\ UNCHANGED <<renameInputVisible, selection, inputField, runs, bulkEdits>>

Focus ==
    /\ focus = "none"
    /\ focus' = "text"
    /\ UNCHANGED <<renameInputVisible, selection, inputField, runs, bulkEdits>>

Next ==
    \/ \E r \in Runs : Run(r)
    \/ AcceptRenameInput
    \/ CancelRenameInput
    \/ \E err \in {Canceled, Failure} : InputFieldRejects(err)
    \/ \E r \in Runs, result \in RenameResults : RenameResolves(r, result)
    \/ \E r \in Runs, err \in Errors : RenameRejects(r, err)
    \/ \E r \in Runs, sel \in FinishSelections : FinishResolves(r, sel)
    \/ \E r \in Runs, err \in Errors : FinishRejects(r, err)
    \/ \E s \in Cursors : SetSelection(s)
    \/ Blur
    \/ Focus

Spec == Init /\ [][Next]_vars

\* Every pending promise settles: the input field resolves or rejects its
\* getInput(), rename() settles, finish() settles.
InputSettles ==
    \/ AcceptRenameInput
    \/ CancelRenameInput
    \/ \E err \in {Canceled, Failure} : InputFieldRejects(err)
RenameSettles(r) ==
    \/ \E result \in RenameResults : RenameResolves(r, result)
    \/ \E err \in Errors : RenameRejects(r, err)
FinishSettles(r) ==
    \/ \E sel \in FinishSelections : FinishResolves(r, sel)
    \/ \E err \in Errors : FinishRejects(r, err)
Fairness ==
    /\ WF_vars(InputSettles)
    /\ \A r \in Runs : WF_vars(RenameSettles(r)) /\ WF_vars(FinishSettles(r))
\* The workflow with every promise settling.  The cursor is moved by the rename
\* only (finish() may set the selection): no step of run() waits on it.
NextLive ==
    \/ \E r \in Runs : Run(r)
    \/ AcceptRenameInput
    \/ CancelRenameInput
    \/ \E err \in {Canceled, Failure} : InputFieldRejects(err)
    \/ \E r \in Runs, result \in RenameResults : RenameResolves(r, result)
    \/ \E r \in Runs, err \in Errors : RenameRejects(r, err)
    \/ \E r \in Runs, sel \in FinishSelections : FinishResolves(r, sel)
    \/ \E r \in Runs, err \in Errors : FinishRejects(r, err)
    \/ Blur
    \/ Focus
SpecLive == Init /\ [][NextLive]_vars /\ Fairness

\* run() alone, from every selection of the document: what it hands to the
\* input field
InitRange == InitWith(AllSelections)
NextRange == \E r \in Runs : Run(r)
SpecRange == InitRange /\ [][NextRange]_vars

\* ================================================================ properties
\* the promise that run r returned settles in this step
Settles(r) == runs[r].outcome.kind = "pending" /\ runs'[r].outcome.kind \in {"resolved", "rejected"}
\* run r has shown the input field and its promise has settled
Settled(r) == runs[r].pc = "done"
\* the input field was accepted for run r
WasAccepted(r) == runs[r].pc \in {"renaming", "finishing"} \/ (runs[r].pc = "done" /\ runs[r].edit # 0)
\* run r has its input field open
InputPending(r) == inputField.pending /\ inputField.run = r

\* C1 (as stated): whenever the promise of a run() that showed the input field
\* settles, the context key renameInputVisible is false.
C1_VisibleFalseWhenSettled ==
    [][\A r \in Runs : Settles(r) => renameInputVisible' = FALSE]_vars

\* C1 (amended): whenever the promise of a run() that showed the input field
\* settles, renameInputVisible is false, unless a later run() has shown the
\* input field since and that input is still pending.
C1_VisibleFalseWhenSettledUnlessLaterInput ==
    [][\A r \in Runs : Settles(r) =>
          \/ renameInputVisible' = FALSE
          \/ \E q \in Runs : q > r /\ inputField'.pending /\ inputField'.run = q]_vars

\* a run() ended by an error of finish(), nothing else in flight, the key is false
C1_Witness ==
    \E r \in Runs : /\ Settled(r)
                    /\ runs[r].outcome = Outcome("rejected", Failure)
                    /\ runs[r].edit # 0
                    /\ bulkEdits[runs[r].edit].state = "failed"
                    /\ renameInputVisible = FALSE

\* C2 (as stated): when the name was accepted, rename() returned edits and
\* finish() failed with an error that is not a string, exactly one message of
\* severity Error was shown, the promise of run() is rejected with that error,
\* and renameInputVisible is false.
C2_FinishErrorShowsOneError ==
    \A r \in Runs :
        ( /\ Settled(r)
          /\ runs[r].edit # 0
          /\ bulkEdits[runs[r].edit].state = "failed"
          /\ ~IsString(bulkEdits[runs[r].edit].error) )
        => /\ Len(runs[r].messages) = 1
           /\ runs[r].messages[1].severity = "Error"
           /\ runs[r].outcome = Outcome("rejected", bulkEdits[runs[r].edit].error)
           /\ renameInputVisible = FALSE

\* what the claim C3 promises of a run whose rename() result carried a reason
RejectReasonShown(r) ==
    /\ Settled(r)
    /\ runs[r].messages = << Message("Info", runs[r].result.rejectReason.val) >>
    /\ runs[r].edit # 0
    /\ bulkEdits[runs[r].edit].edits = <<>>
    /\ bulkEdits[runs[r].edit].finishCalls = 0
    /\ runs[r].selectionsSet = <<>>
    /\ runs[r].outcome = Outcome("resolved", Undefined)

\* C3 (as stated): when rename() resolves with a result whose rejectReason is
\* the string X, the run shows exactly one message, of severity Info and with
\* the text X, adds no edit to the BulkEdit, never calls finish(), never sets
\* the selection, and the promise of run() resolves.
C3_AnyRejectReasonShown ==
    \A r \in Runs : IsString(runs[r].result.rejectReason) => RejectReasonShown(r)

\* C3 (amended): the same, for a rejectReason that is a non-empty string X.
C3_NonEmptyRejectReasonShown ==
    \A r \in Runs :
        (IsString(runs[r].result.rejectReason) /\ runs[r].result.rejectReason.val # "")
        => RejectReasonShown(r)

C3_Witness ==
    \E r \in Runs : /\ runs[r].result = Result(Str("X"), <<>>)
                    /\ runs[r].newName \in Names
                    /\ Settled(r)

\* C4: when rename() resolved with the edits E and no reject reason, and
\* finish() resolves with the selection S, then in that step the BulkEdit of
\* the run holds exactly E in the same order, finish() has been called once,
\* the run has shown no message, and the selection of the editor is S; when
\* finish() resolves with no selection the selection of the editor is left as
\* it was.
C4_CommitStagesEditsAndSetsSelection ==
    [][\A r \in Runs :
          ( /\ runs[r].pc = "finishing"
            /\ runs[r].result.rejectReason = Undefined
            /\ Settles(r)
            /\ bulkEdits'[runs[r].edit].state = "committed" )
          => LET bulkEdit == bulkEdits'[runs[r].edit]
                 S == bulkEdit.selection
             IN /\ bulkEdit.edits = runs[r].result.edits
                /\ bulkEdit.finishCalls = 1
                /\ bulkEdit.run = r
                /\ runs'[r].messages = <<>>
                /\ runs'[r].outcome = Outcome("resolved", Undefined)
                /\ S # NoSelection => selection' = S /\ runs'[r].selectionsSet = <<S>>
                /\ S = NoSelection => selection' = selection /\ runs'[r].selectionsSet = <<>>]_vars

\* a run committed the edits e1, e2 and finish() gave a selection the editor now has
C4_Witness ==
    \E r \in Runs : /\ Settled(r)
                    /\ runs[r].result = Result(Undefined, <<"e1", "e2">>)
                    /\ bulkEdits[runs[r].edit].state = "committed"
                    /\ bulkEdits[runs[r].edit].selection # NoSelection
                    /\ selection = bulkEdits[runs[r].edit].selection

\* C5: when getInput() rejects with the cancellation error, then in that step
\* the run has shown no message, has created no BulkEdit, has not called
\* rename(), no edit was added, the editor has the focus, renameInputVisible
\* is false, and the promise of run() resolves.
C5_CancelIsSwallowed ==
    [][\A r \in Runs :
          (InputPending(r) /\ runs'[r].inputError = Canceled)
          => /\ runs'[r].messages = <<>>
             /\ runs'[r].edit = 0
             /\ bulkEdits' = bulkEdits
             /\ \A i \in DOMAIN bulkEdits' : bulkEdits'[i].run # r
             /\ runs'[r].renameCalls = <<>>
             /\ runs'[r].focused = 1
             /\ focus' = "text"
             /\ runs'[r].resets = 1
             /\ renameInputVisible' = FALSE
             /\ runs'[r].outcome = Outcome("resolved", Undefined)]_vars

C5_Witness ==
    \E r \in Runs : /\ Settled(r)
                    /\ runs[r].inputError = Canceled
                    /\ runs[r].outcome = Outcome("resolved", Undefined)

\* C6: while the input of a run is pending, no BulkEdit has been created for
\* that run, rename() has not been called for it, and no edit of it is added
\* or committed; every BulkEdit belongs to a run whose input was accepted.
C6_NothingStagedBeforeAccept ==
    /\ \A r \in Runs :
          runs[r].pc = "input"
          => /\ InputPending(r)
             /\ runs[r].edit = 0
             /\ runs[r].renameCalls = <<>>
             /\ \A i \in DOMAIN bulkEdits : bulkEdits[i].run # r
    /\ \A i \in DOMAIN bulkEdits :
          /\ WasAccepted(bulkEdits[i].run)
          /\ runs[bulkEdits[i].run].newName \in Names

\* the input of a second run is pending while the first run has committed edits
C6_Witness ==
    \E r, q \in Runs : /\ runs[r].pc = "input"
                       /\ runs[q].edit # 0
                       /\ bulkEdits[runs[q].edit].state = "committed"
                       /\ bulkEdits[runs[q].edit].edits # <<>>

\* C7 (as stated): whenever the promise of run() is rejected, the run has reset
\* renameInputVisible, has focused the editor and has shown a message of
\* severity Error, whatever failed: getInput(), rename() or finish().
C7_NoRejectionWithoutMessage ==
    \A r \in Runs :
        runs[r].outcome.kind = "rejected"
        => /\ runs[r].resets >= 1
           /\ runs[r].focused >= 1
           /\ \E i \in DOMAIN runs[r].messages : runs[r].messages[i].severity = "Error"

\* C8 (as stated): once the input is accepted, rename() has been called exactly
\* once, with the model, the name getInput() resolved with, and the position
\* of run(): the cursor when run() was called, where the word was looked up.
C8_RenameAtOriginalPosition ==
    \A r \in Runs :
        WasAccepted(r)
        => /\ Len(runs[r].renameCalls) = 1
           /\ runs[r].renameCalls[1].model = "model"
           /\ runs[r].renameCalls[1].newName = runs[r].newName
           /\ runs[r].renameCalls[1].position \in {runs[r].position, runs[r].startPosition}

\* C9: when run() finds no word at the start of the selection it returns at
\* once and changes nothing: renameInputVisible stays false, the input field
\* is not shown, focus and selection are not written, no BulkEdit is created,
\* rename() is not called, no message is shown, no progress is asked for.
C9_NoWordChangesNothing ==
    [][\A r \in Runs :
          (runs[r].pc = "none" /\ runs'[r].pc = "returned")
          => /\ renameInputVisible = FALSE /\ renameInputVisible' = FALSE
             /\ inputField' = inputField /\ ~inputField'.pending
             /\ focus' = focus
             /\ selection' = selection
             /\ bulkEdits' = bulkEdits
             /\ runs' = [runs EXCEPT ![r] = [NewRun EXCEPT !.pc = "returned",
                                                          !.outcome = Outcome("undefined", Undefined)]]]_vars

C9_Witness ==
    \E r \in Runs : runs[r].pc = "returned" /\ runs[r].outcome.kind = "undefined"

\* C10: the part of the word handed to the input field: [0, length of the
\* word] when the selection is empty or spans several lines; otherwise start =
\* max(0, start column of the selection - start column of the word) and end =
\* min(end column of the word, end column of the selection) - start column of
\* the word.  (Checked under SpecRange, where the selection is the one run()
\* read.)
C10_SubRangeIsReference ==
    inputField.pending
    => LET a == selection.selectionStart
           p == selection.position
           lo == IF a.column <= p.column THEN a.column ELSE p.column
           hi == IF a.column <= p.column THEN p.column ELSE a.column
           tokenStart == inputField.where.startColumn
           tokenEnd == inputField.where.endColumn
           tokenLength == Len(inputField.value)
       IN IF a = p \/ a.lineNumber # p.lineNumber
          THEN inputField.selectionStart = 0 /\ inputField.selectionEnd = tokenLength
          ELSE /\ inputField.selectionStart = (IF lo - tokenStart > 0 THEN lo - tokenStart ELSE 0)
               /\ inputField.selectionEnd = (IF tokenEnd < hi THEN tokenEnd ELSE hi) - tokenStart

\* a selection on one line that ends beyond the word, and one strictly inside it
C10_Witness ==
    /\ inputField.pending
    /\ selection.selectionStart.lineNumber = selection.position.lineNumber
    /\ selection.selectionStart.column < selection.position.column
    /\ inputField.where.startColumn < selection.selectionStart.column
    /\ selection.position.column > inputField.where.endColumn
    /\ inputField.selectionStart > 0
    /\ inputField.selectionEnd = Len(inputField.value)

\* C11: every run() that shows the input field comes back to idle with its
\* promise settled, given that getInput(), rename() and finish() each settle:
\* no run stays with its input open or its rename in flight for ever.
C11_EveryRunSettles ==
    \A r \in Runs :
        (runs[r].pc \in {"input", "renaming", "finishing"})
        ~> (runs[r].pc = "done" /\ runs[r].outcome.kind \in {"resolved", "rejected"})

\* every run() of the behaviour has shown the input field and is back to idle
C11_Witness ==
    /\ \A r \in Runs : runs[r].pc = "done"
    /\ \E r \in Runs : bulkEdits # <<>> /\ runs[r].edit = Len(bulkEdits) /\ bulkEdits[runs[r].edit].state = "failed"
    /\ renameInputVisible = FALSE

\* the pending input of run r is settled in this step the way acceptInput()
\* or cancelInput() settles it
SettledByCommand(r) ==
    /\ InputPending(r)
    /\ runs'[r].pc = "renaming" \/ runs'[r].inputError = Canceled
\* rename() or finish() of run r is in flight
Committing(r) == runs[r].pc \in {"renaming", "finishing"}

\* C12 (as stated): acceptRenameInput and cancelRenameInput reach the
\* controller only while renameInputVisible is true and the editor has the
\* focus; so they never reach the input field while no input is shown, nor
\* while a rename() or a finish() is in flight.
C12_CommandsOnlyWhileInputVisibleNeverCommitting ==
    [][/\ inputField'.missed = FALSE
       /\ \A r \in Runs :
             SettledByCommand(r)
             => /\ renameInputVisible /\ focus # "none"
                /\ \A q \in Runs : ~Committing(q)]_vars

\* C12 (amended): the commands reach the controller only while
\* renameInputVisible is true and the editor has the focus; so they never
\* reach the input field while no input is pending (they may reach it while
\* the rename() or finish() of an earlier run is in flight, when a later run()
\* has shown the input field).
C12_CommandsOnlyWhileInputVisible ==
    [][/\ inputField'.missed = FALSE
       /\ \A r \in Runs :
             SettledByCommand(r) => renameInputVisible /\ focus # "none"]_vars

\* the input of a second run was accepted while the first run was committing
C12_Witness ==
    /\ inputField.missed = FALSE
    /\ \E r, q \in Runs : /\ r < q
                          /\ runs[r].pc = "finishing"
                          /\ runs[q].pc = "renaming"
                          /\ runs[q].newName \in Names

\* C13: when getInput() rejects with anything but the cancellation error, the
\* run resets renameInputVisible, focuses the editor (in that order, before
\* anything else) and the promise of run() rejects with that same error; no
\* BulkEdit is created, rename() is not called, no edit is added.
C13_InputFailureIsPassedOn ==
    [][\A r \in Runs :
          ( /\ InputPending(r)
            /\ runs'[r].inputError # Undefined
            /\ ~isPromiseCanceledError(runs'[r].inputError) )
          => /\ runs'[r].calls = <<"reset", "focus">>
             /\ runs'[r].resets = 1 /\ renameInputVisible' = FALSE
             /\ runs'[r].focused = 1 /\ focus' = "text"
             /\ runs'[r].pc = "done"
             /\ runs'[r].outcome = Outcome("rejected", runs'[r].inputError)
             /\ runs'[r].edit = 0
             /\ bulkEdits' = bulkEdits
             /\ \A i \in DOMAIN bulkEdits' : bulkEdits'[i].run # r
             /\ runs'[r].renameCalls = <<>>]_vars

C13_Witness ==
    \E r \in Runs : /\ Settled(r)
                    /\ runs[r].inputError = Failure
                    /\ runs[r].outcome = Outcome("rejected", Failure)
                    /\ runs[r].edit = 0

\* no other run than r is between its call and its settling
Alone(r) == \A q \in Runs \ {r} : runs[q].pc \in {"none", "returned", "done"}

\* C14: for a run() that no other run overlaps, renameInputVisible is true in
\* exactly the states where its getInput() is pending: true once the input
\* field is shown, false from the accept or the reject of the input on, while
\* rename() and finish() are in flight and when the run is idle again.
C14_VisibleExactlyWhileInputPending ==
    \A r \in Runs :
        Alone(r)
        => /\ renameInputVisible <=> runs[r].pc = "input"
           /\ runs[r].pc = "input" <=> InputPending(r)
           /\ Committing(r) => ~renameInputVisible /\ ~inputField.pending

\* a run that nothing overlaps has its finish() in flight
C14_Witness ==
    \E r \in Runs : /\ Alone(r)
                    /\ runs[r].pc = "finishing"
                    /\ runs[r].resets = 1
                    /\ renameInputVisible = FALSE

\* C15: every accepted input creates exactly one new BulkEdit, after the reset
\* of the key and the focus of the editor and before rename() is called; edits
\* are added only to the BulkEdit of the same run; finish() is called at most
\* once on a BulkEdit; no BulkEdit is used by another run().
C15_OneFreshBulkEditPerAcceptedInput ==
    /\ \A r \in Runs :
          IF WasAccepted(r)
          THEN /\ runs[r].edit \in DOMAIN bulkEdits
               /\ bulkEdits[runs[r].edit].run = r
               /\ Cardinality({i \in DOMAIN bulkEdits : bulkEdits[i].run = r}) = 1
               /\ Len(runs[r].calls) >= 4
               /\ SubSeq(runs[r].calls, 1, 4) = <<"reset", "focus", "createBulkEdit", "rename">>
               /\ \A q \in Runs \ {r} : runs[q].edit # runs[r].edit
          ELSE /\ runs[r].edit = 0
               /\ \A i \in DOMAIN bulkEdits : bulkEdits[i].run # r
    /\ \A i \in DOMAIN bulkEdits :
          /\ bulkEdits[i].finishCalls <= 1
          /\ bulkEdits[i].edits \in {<<>>, runs[bulkEdits[i].run].result.edits}
          /\ bulkEdits[i].finishCalls = 1 <=> runs[bulkEdits[i].run].pc \in {"finishing", "done"}
                                              /\ ~IsRejection(runs[bulkEdits[i].run].result)
                                              /\ runs[bulkEdits[i].run].failure = Undefined

\* two runs, each with its own BulkEdit, each finished once
C15_Witness ==
    \E r, q \in Runs : /\ r # q
                       /\ runs[r].edit = 1 /\ runs[q].edit = 2
                       /\ bulkEdits[1].finishCalls = 1 /\ bulkEdits[2].finishCalls = 1
                       /\ bulkEdits[1].edits # <<>> /\ bulkEdits[2].edits # <<>>

\* finish() of run r resolved with a selection
CommittedWithSelection(r) ==
    /\ runs[r].edit # 0
    /\ bulkEdits[runs[r].edit].state = "committed"
    /\ bulkEdits[runs[r].edit].selection # NoSelection

\* C16 (as stated): a run() that showed the input field and has settled has
\* focused the editor exactly once and has set its selection exactly once.
C16_FocusAndSelectionWrittenOnce ==
    \A r \in Runs :
        Settled(r) => runs[r].focused = 1 /\ Len(runs[r].selectionsSet) = 1

\* C16 (amended): a run() that showed the input field and has settled has
\* focused the editor exactly once; it has set the selection once when
\* finish() resolved with a selection and not at all otherwise; no run writes
\* either more than once.
C16_FocusOnceSelectionAtMostOnce ==
    \A r \in Runs :
        /\ runs[r].focused <= 1
        /\ Len(runs[r].selectionsSet) <= 1
        /\ Settled(r)
           => /\ runs[r].focused = 1
              /\ Len(runs[r].selectionsSet) = 1 <=> CommittedWithSelection(r)
              /\ CommittedWithSelection(r)
                 => runs[r].selectionsSet = << bulkEdits[runs[r].edit].selection >>

\* one run ended by a reject reason, another by a commit that gave a selection
C16_Witness ==
    \E r, q \in Runs : /\ Settled(r) /\ Settled(q)
                       /\ runs[r].failure = Str("X") /\ runs[r].selectionsSet = <<>>
                       /\ CommittedWithSelection(q) /\ Len(runs[q].selectionsSet) = 1
                       /\ runs[r].focused = 1 /\ runs[q].focused = 1

\* C17: a failure of the rename step (rename() rejecting, or its result
\* carrying a reason) is told apart by its type only: a string gives exactly
\* one message of severity Info with that string and the promise of run()
\* resolves; anything else gives exactly one message of severity Error with
\* the generic text and the promise of run() rejects with that same value; in
\* both cases finish() is not called and the selection is not set.
C17_RenameFailureByType ==
    \A r \in Runs :
        runs[r].failure # Undefined
        => /\ Settled(r)
           /\ bulkEdits[runs[r].edit].finishCalls = 0
           /\ bulkEdits[runs[r].edit].state = "open"
           /\ runs[r].selectionsSet = <<>>
           /\ IF runs[r].failure.type = "string"
              THEN /\ runs[r].messages = << Message("Info", runs[r].failure.val) >>
                   /\ runs[r].outcome = Outcome("resolved", Undefined)
              ELSE /\ runs[r].messages = << Message("Error", "rename.failed") >>
                   /\ runs[r].outcome = Outcome("rejected", runs[r].failure)

\* rename() rejected with a string in one run and with an Error in another
C17_Witness ==
    \E r, q \in Runs : /\ runs[r].failure = Str("S") /\ runs[r].result = NoResult
                       /\ runs[q].failure = Failure
                       /\ Settled(r) /\ Settled(q)

\* C18: for every word and every selection that starts within the word, the
\* part handed to the input field satisfies 0 <= selectionStart <=
\* selectionEnd <= length of the word, also when the selection ends beyond the
\* word on the same line.  (Checked under SpecRange.)
C18_SubRangeWithinWord ==
    inputField.pending
    => /\ inputField.where.startColumn <= startColumn(selection)
       /\ startColumn(selection) <= inputField.where.endColumn
       /\ 0 <= inputField.selectionStart
       /\ inputField.selectionStart <= inputField.selectionEnd
       /\ inputField.selectionEnd <= Len(inputField.value)

\* a selection that starts at the end of the word and ends beyond it
C18_Witness ==
    /\ inputField.pending
    /\ ~isEmpty(selection)
    /\ startLineNumber(selection) = endLineNumber(selection)
    /\ startColumn(selection) = inputField.where.endColumn
    /\ endColumn(selection) > inputField.where.endColumn
    /\ inputField.selectionStart = Len(inputField.value)
    /\ inputField.selectionEnd = Len(inputField.value)

\* C19: a result of rename() is handled as a rejection exactly when its
\* rejectReason is a non-empty string; with no rejectReason or with the empty
\* string it is a success: its edits are added, finish() is called, and no
\* message of severity Info is shown.
C19_RejectionIffNonEmptyReason ==
    \A r \in Runs :
        runs[r].result # NoResult
        => LET reason == runs[r].result.rejectReason
               bulkEdit == bulkEdits[runs[r].edit]
           IN IF reason.type = "string" /\ reason.val # ""
              THEN /\ runs[r].failure = reason
                   /\ runs[r].messages = << Message("Info", reason.val) >>
                   /\ bulkEdit.edits = <<>>
                   /\ bulkEdit.finishCalls = 0
              ELSE /\ runs[r].failure = Undefined
                   /\ bulkEdit.edits = runs[r].result.edits
                   /\ bulkEdit.finishCalls = 1
                   /\ \A i \in DOMAIN runs[r].messages : runs[r].messages[i].severity # "Info"

\* a result with the empty string as its reason was committed
C19_Witness ==
    \E r \in Runs : /\ runs[r].result = Result(Str(""), <<"e1">>)
                    /\ bulkEdits[runs[r].edit].edits = <<"e1">>
                    /\ bulkEdits[runs[r].edit].state = "committed"
                    /\ runs[r].messages = <<>>

\* C20: a run() called while an earlier run has its rename() or finish() in
\* flight is neither refused nor put off: in that step it sets
\* renameInputVisible and shows the input field, and the earlier run goes on
\* untouched; when the earlier run settles (commit, reject reason or error) it
\* does not write renameInputVisible, which stays true for as long as the
\* input of the later run is pending.
C20_OverlappingRunKeepsVisible ==
    [][/\ \A q \in Runs :
             (runs[q].pc = "none" /\ runs'[q].pc = "input" /\ \E r \in Runs : Committing(r))
             => /\ renameInputVisible'
                /\ inputField'.pending /\ inputField'.run = q
                /\ runs'[q].outcome = Outcome("pending", Undefined)
                /\ \A r \in Runs \ {q} : runs'[r] = runs[r]
       /\ \A r \in Runs :
             (Committing(r) /\ Settles(r))
             => /\ renameInputVisible' = renameInputVisible
                /\ runs'[r].resets = runs[r].resets
                /\ inputField' = inputField
       /\ inputField'.pending => renameInputVisible']_vars

\* the first run has committed while the input of the second is still open
C20_Witness ==
    \E r, q \in Runs : /\ r < q
                       /\ Settled(r)
                       /\ bulkEdits # <<>>
                       /\ runs[r].edit = 1
                       /\ bulkEdits[1].state = "committed"
                       /\ InputPending(q)
                       /\ renameInputVisible
====
